---- MODULE Spec2Model ----
(***************************************************************************)
(* mailmind: the per-user email pipeline, its concurrency gates and its    *)
(* scheduler bookkeeping (src/app.py, src/services/scheduler_manager.py,   *)
(* src/services/async_tasks.py) and the email store operations the         *)
(* pipeline calls (src/models/database.py).                                *)
(***************************************************************************)
EXTENDS Integers, Sequences, FiniteSets, TLC

\* ------------------------------------------------------------------------
\* Bounds of the model
\* ------------------------------------------------------------------------
\* number of active users that have a scheduled job (specification Spec)
NUsers == 4
\* pipeline failures the environment injects in one behaviour of Spec
MaxFaults == 1
\* users of the error-accounting specification SpecErr
NErrUsers == 1
\* messages a mailbox holds at most (their IMAP ids are 1..MaxMsgs)
MaxMsgs == 3
\* distinct message contents
NContents == 3
\* the user's setting max_emails_per_account
max_emails_per_account == 2

\* messages a mailbox of SpecOrder holds
MaxOrderMsgs == 1
\* emails of a listing a digest is created from
MaxDigest == 3

\* the largest match_count a rule reaches
MaxMatchCount == 1

\* ------------------------------------------------------------------------
\* Program constants
\* ------------------------------------------------------------------------
\* src/app.py:41
MAX_CONCURRENT_USERS == 3
\* src/services/scheduler_manager.py:25  (default of __init__, used at app.py:85)
max_concurrent_users == 3
\* src/services/scheduler_manager.py:275  (error_counts[user_id] >= 5)
error_limit == 5
\* src/services/async_tasks.py:17  (@celery_app.task(bind=True, max_retries=3))
max_retries == 3

VARIABLES
    users,                      \* ids of the active users (users table)
    scheduler_jobs,             \* ids of the jobs registered in the APScheduler
    user_jobs,                  \* EmailSchedulerManager.user_jobs (dict)
    current_processing,         \* EmailSchedulerManager.current_processing (set)
    current_processing_users,   \* app.current_processing_users (set)
    error_counts,               \* EmailSchedulerManager.error_counts (defaultdict)
    sched,                      \* position of the scheduled firing of each user
    thread,                     \* position of the manual thread of each user
    celery,                     \* position and retry count of the Celery task
    faults,                     \* failures the environment may still inject
    consec_failed,              \* history: consecutive failed scheduled runs
    last_failed,                \* history: terminal record of the latest run that raised
    skipped,                    \* history: the gate that last skipped a firing of SkipUsers
    emails,                     \* rows of the emails table
    email_accounts,             \* rows of the email_accounts table, per user,
                                \* in the order of their insertion
    mailbox,                    \* messages the IMAP search returns, per address
    db_call,                    \* the Database call in progress, with its result
    pipe_last,                  \* history: terminal record of the latest pipeline run
    pipe_twice,                 \* history: that run directly followed a clean run
    rules,                      \* rows of the classification_rules table
    svc_call                    \* the service call in progress, with its result

gateVars == <<users, scheduler_jobs, user_jobs, current_processing,
              current_processing_users, error_counts, sched, thread, celery,
              faults, consec_failed, last_failed, skipped>>

storeVars == <<emails, email_accounts, mailbox, db_call, pipe_last, pipe_twice>>

svcVars == <<rules, svc_call>>

vars == <<gateVars, storeVars, svcVars>>

\* ------------------------------------------------------------------------
\* Keys.  user_jobs is a dict keyed by the integer user id; the scheduler's
\* registry is keyed by the string job id.  A Python int never equals a str,
\* so the two kinds of key are kept apart by a tag.
\* ------------------------------------------------------------------------
IntKey(u) == <<"int", u>>
JobId(u) == <<"str", u>>

\* the user who presses the manual trigger (thread mode or Celery mode)
ManualUsers == {1}

\* the user whose skipped firings the history variable skipped records
SkipUsers == {1}

\* terminal record of a run that raised: the notifications it wrote, whether
\* it was re-queued automatically, and whether its user was out of the
\* pipeline's slot set when it ended
RunRecord(kind, notes, retried, released) ==
    [kind |-> kind, notes |-> notes, retried |-> retried,
     released |-> released]

NoFailure == RunRecord("none", <<>>, FALSE, TRUE)

\* terminal outcomes of the pipeline body:
\*   no_accounts  the user has no account row               (early return)
\*   empty        nothing was fetched                       (early return)
\*   dups         every fetched email was a duplicate       (early return)
\*   saved        emails were persisted, a digest was created
\*   unlisted     emails were persisted, the listing for the digest was empty
\*   error        an exception was raised inside the try block
Kinds == {"no_accounts", "empty", "dups", "saved", "unlisted", "error"}

\* ------------------------------------------------------------------------
\* The two gates
\* ------------------------------------------------------------------------
\* variant: the pipeline's gate tests the cap only
AppGateAdmits_CapOnly(cpu, u) ==
    ~(Cardinality(cpu) >= MAX_CONCURRENT_USERS)

\* process_user_emails, the check under processing_lock
AppGateAdmits(cpu, u) ==
    /\ ~(Cardinality(cpu) >= MAX_CONCURRENT_USERS)
    /\ ~(u \in cpu)

\* variant: the manager's gate keeps one slot unused
ManagerGateAdmits_OffByOne(cp, u) ==
    /\ ~(Cardinality(cp) + 1 >= max_concurrent_users)
    /\ ~(u \in cp)

\* _safe_process_user_emails, the check under self.lock
ManagerGateAdmits(cp, u) ==
    /\ ~(Cardinality(cp) >= max_concurrent_users)
    /\ ~(u \in cp)

\* variant: the slot is freed on the normal path only (no finally block)
Discard_NormalPathOnly(set, u, kind) ==
    IF kind \in {"error", "raised"} THEN set ELSE set \ {u}

\* the finally blocks: set.discard(user_id), whatever the outcome was
Discard(set, u, kind) == set \ {u}

\* ------------------------------------------------------------------------
\* Notifications a run writes, by outcome
\* ------------------------------------------------------------------------
\* save_notification(user_id, title, message, notification_type): the titles
\* are fixed by the type (info: mail fetch completed, success: new mail
\* arrived, error: mail fetch failed); message names the text written
Note(type, message) == [type |-> type, message |-> message]

\* process_user_emails (scheduled firings and manual threads)
PipelineNotes(kind) ==
    CASE kind = "no_accounts" -> <<>>
      [] kind = "empty"       -> <<Note("info", "no_new_mail")>>
      [] kind = "dups"        -> <<Note("info", "all_duplicates")>>
      [] kind = "saved"       -> <<Note("success", "saved")>>
      [] kind = "unlisted"    -> <<>>
      [] kind = "error"       -> <<>>

\* process_user_emails_async (Celery task): it has no listing step, and its
\* except clause writes the error notification
AsyncNotes(kind) ==
    CASE kind = "no_accounts" -> <<>>
      [] kind = "empty"       -> <<Note("info", "no_new_mail")>>
      [] kind = "dups"        -> <<Note("info", "all_duplicates")>>
      [] kind = "saved"       -> <<Note("success", "saved")>>
      [] kind = "unlisted"    -> <<Note("success", "saved")>>
      [] kind = "error"       -> <<Note("error", "failed")>>

\* ------------------------------------------------------------------------
\* remove_user_schedule: the job is removed only when the string job_id is a
\* key of user_jobs and the scheduler knows the job.
\* ------------------------------------------------------------------------
\* scheduler.get_job(job_id): the jobs of that id
get_job(jobs, job_id) == {j \in jobs : j.id = job_id}

RemoveGuard(uj, jobs, u) == JobId(u) \in DOMAIN uj /\ get_job(jobs, JobId(u)) # {}

RemovedJobs(uj, jobs, u) ==
    IF RemoveGuard(uj, jobs, u) THEN jobs \ get_job(jobs, JobId(u)) ELSE jobs

RemovedUserJobs(uj, jobs, u) ==
    IF RemoveGuard(uj, jobs, u)
    THEN [k \in DOMAIN uj \ {IntKey(u)} |-> uj[k]]
    ELSE uj

\* ------------------------------------------------------------------------
\* EmailSchedulerManager: create_user_schedule and the triggers it registers
\* ------------------------------------------------------------------------
\* config.get(key, default)
Get(config, key, default) == IF key \in DOMAIN config THEN config[key] ELSE default

\* the hours of a day
Hours == 0..23

\* the values of a list, which ','.join writes and the cron trigger parses
\* back
FieldValues(list) == {list[i] : i \in 1..Len(list)}

\* list(range(0, 24, n_hours))
HoursEvery(n_hours) == {h \in Hours : \E k \in Hours : h = k * n_hours}

\* the trigger add_job is given for user_id and config; trigger "error"
\* stands for the exception a helper or the trigger's constructor raises,
\* trigger "none" for a branch that adds no job
IntervalTrigger(user_id, config) ==
    [trigger |-> "interval", minutes |-> Get(config, "interval_minutes", 30),
     start_offset |-> (user_id * 3) % 30, hour |-> {}, minute |-> {}]

CronTrigger(hour, minute) ==
    IF hour \subseteq Hours /\ minute \subseteq 0..59 /\ hour # {} /\ minute # {}
    THEN [trigger |-> "cron", minutes |-> 0, start_offset |-> 0,
          hour |-> hour, minute |-> minute]
    ELSE [trigger |-> "error", minutes |-> 0, start_offset |-> 0,
          hour |-> {}, minute |-> {}]

NoTrigger == [trigger |-> "none", minutes |-> 0, start_offset |-> 0,
              hour |-> {}, minute |-> {}]

CustomTrigger(config) ==
    LET custom_rule == Get(config, "custom_rule", "hourly")
        cron_minutes == Get(config, "cron_minutes", <<0>>)
        minute == IF cron_minutes = <<>> THEN {} ELSE {cron_minutes[1]}
        n_hours == Get(config, "n_hours", 6)
    IN  CASE custom_rule = "hourly" -> CronTrigger(Hours, minute)
          [] custom_rule = "even_hours" ->
                 CronTrigger({h \in Hours : h % 2 = 0}, minute)
          [] custom_rule = "odd_hours" ->
                 CronTrigger({h \in Hours : h % 2 = 1}, minute)
          [] custom_rule = "every_n_hours" ->
                 IF n_hours = 0 THEN CronTrigger({}, minute)
                 ELSE CronTrigger(HoursEvery(n_hours), minute)
          [] OTHER -> NoTrigger

TriggerFor(user_id, config) ==
    LET schedule_type == Get(config, "type", "interval")
    IN  CASE schedule_type = "interval" -> IntervalTrigger(user_id, config)
          [] schedule_type = "cron" ->
                 CronTrigger(FieldValues(Get(config, "cron_hours", <<6>>)),
                             FieldValues(Get(config, "cron_minutes", <<0>>)))
          [] schedule_type = "custom" -> CustomTrigger(config)
          [] OTHER -> NoTrigger

\* the job add_job registers
Job(user_id, config) ==
    [id |-> JobId(user_id), args |-> user_id, trigger |-> TriggerFor(user_id, config)]

\* add_job without replace_existing
add_job_NoReplace(jobs, job) == jobs \cup {job}

\* scheduler.add_job(..., id=job_id, replace_existing=True)
add_job(jobs, job) == (jobs \ get_job(jobs, job.id)) \cup {job}

\* the configuration of a user with no stored settings
DefaultConfig == [type |-> "interval", interval_minutes |-> 30]

\* create_user_schedule(user_id, schedule_config): the registry and
\* user_jobs it leaves, and whether a job was registered.  An argument that
\* is no dict raises at schedule_config.get, before the try block.
create_user_schedule(jobs, uj, user_id, config) ==
    IF "not_a_dict" \in DOMAIN config
    THEN [jobs |-> jobs, user_jobs |-> uj, registered |-> FALSE]
    ELSE LET kept == IF RemoveGuard(uj, jobs, user_id)
                     THEN jobs \ get_job(jobs, JobId(user_id)) ELSE jobs
             job == Job(user_id, config)
             set_uj == [k \in DOMAIN uj \cup {IntKey(user_id)} |->
                           IF k = IntKey(user_id) THEN JobId(user_id) ELSE uj[k]]
         IN  CASE job.trigger.trigger = "error" ->
                      [jobs |-> kept, user_jobs |-> uj, registered |-> FALSE]
               [] job.trigger.trigger = "none"
                  /\ Get(config, "type", "interval") # "custom" ->
                      [jobs |-> kept, user_jobs |-> uj, registered |-> FALSE]
               [] job.trigger.trigger = "none" ->
                      [jobs |-> kept, user_jobs |-> set_uj, registered |-> FALSE]
               [] OTHER ->
                      [jobs |-> add_job(kept, job), user_jobs |-> set_uj,
                       registered |-> TRUE]

\* int(text) for the texts of the stored settings; -1 stands for ValueError
IntOf(text) ==
    CASE text = "0" -> 0 [] text = "5" -> 5 [] text = "6" -> 6
      [] text = "15" -> 15 [] text = "18" -> 18 [] text = "30" -> 30
      [] OTHER -> -1

\* [int(h.strip()) for h in text.split(',')], of a text given by its parts
IntList(parts) == [i \in 1..Len(parts) |-> IntOf(parts[i])]

\* _get_user_schedule_config(user_id, db): user_configs are the stored rows,
\* each text given by its comma-separated parts; ok is FALSE when the query
\* raises
get_user_schedule_config(user_configs, ok) ==
    LET schedule_type == Get(user_configs, "schedule_type", "interval")
        interval == IntList(Get(user_configs, "check_interval_minutes", <<"30">>))
        hours == IntList(Get(user_configs, "cron_hours", <<"6">>))
        minutes == IntList(Get(user_configs, "cron_minutes", <<"0">>))
        custom_minute == IntList(Get(user_configs, "custom_minute", <<"0">>))
        n_hours == IntList(Get(user_configs, "n_hours", <<"6">>))
        custom_rule == Get(user_configs, "custom_rule", "hourly")
        bad(list) == Len(list) # 1 \/ list[1] = -1
    IN  CASE ~ok -> DefaultConfig
          [] schedule_type = "interval" ->
                 IF bad(interval) THEN DefaultConfig
                 ELSE [type |-> schedule_type, interval_minutes |-> interval[1]]
          [] schedule_type = "cron" ->
                 IF -1 \in FieldValues(hours) \cup FieldValues(minutes)
                 THEN DefaultConfig
                 ELSE [type |-> schedule_type, cron_hours |-> hours,
                       cron_minutes |-> minutes]
          [] schedule_type = "custom" ->
                 IF bad(custom_minute) THEN DefaultConfig
                 ELSE IF custom_rule = "every_n_hours"
                 THEN IF bad(n_hours) THEN DefaultConfig
                      ELSE [type |-> schedule_type, custom_rule |-> custom_rule,
                            cron_minutes |-> custom_minute, n_hours |-> n_hours[1]]
                 ELSE [type |-> schedule_type, custom_rule |-> custom_rule,
                       cron_minutes |-> custom_minute]
          [] OTHER -> [type |-> schedule_type]

\* the arguments create_user_schedule is called with
ScheduleConfigs ==
    {DefaultConfig,
     [type |-> "interval", interval_minutes |-> 5],
     [type |-> "cron", cron_hours |-> <<6, 18>>, cron_minutes |-> <<0>>],
     [type |-> "cron", cron_hours |-> <<24>>, cron_minutes |-> <<0>>],
     [type |-> "custom", custom_rule |-> "hourly", cron_minutes |-> <<15>>],
     [type |-> "custom", custom_rule |-> "even_hours"],
     [type |-> "custom", custom_rule |-> "every_n_hours", n_hours |-> 0],
     [type |-> "custom", custom_rule |-> "weekdays"],
     [type |-> "monthly"],
     [not_a_dict |-> 30]}

\* the settings rows save_user_config leaves
StoredConfigs ==
    {[schedule_type |-> "interval"],
     [schedule_type |-> "interval", check_interval_minutes |-> <<"5">>],
     [schedule_type |-> "cron", cron_hours |-> <<"6", "18">>, cron_minutes |-> <<"0">>],
     [schedule_type |-> "cron", cron_hours |-> <<"x">>],
     [schedule_type |-> "custom", custom_rule |-> "odd_hours", custom_minute |-> <<"15">>],
     [schedule_type |-> "custom", custom_rule |-> "every_n_hours",
      custom_minute |-> <<"0">>, n_hours |-> <<"5">>]}

\* ------------------------------------------------------------------------
\* The emails table and the Database operations of the pipeline
\* ------------------------------------------------------------------------
\* the mailbox addresses of the model
Addresses == {"a"}

\* the users of the store specifications: user 1 and another user
DbUsers == {1, 2}

\* the user whose pipeline runs in SpecPipe
PipeUsers == {1}

\* a message content is a number c: contents 2k-1 and 2k agree on subject,
\* sender, date, recipients and the first 2000 characters of the body, and
\* differ after them
Contents == 1..NContents

\* email_data without the key 'content_hash'
NoHash == 0

\* the dict fetch_new_emails builds for message uid of addr; email_id is
\* f"{email_address}:{uid}"
Candidate(u, addr, uid, c) ==
    [email_id |-> <<addr, uid>>, user_id |-> u, account_email |-> addr,
     content |-> c, content_hash |-> NoHash, processed |-> FALSE]

\* md5 over subject|sender|date|recipients|body[:2000]: what follows the
\* first 2000 characters of the body does not reach the hash
generate_content_hash(email_data) == (email_data.content + 1) \div 2

\* email_data['date'], the Date header: it is part of the hashed content, and
\* the hashed contents are numbered in the order of their dates
DateOf(email_data) == (email_data.content + 1) \div 2

\* variant: the ids of the rows of the window only, as the branch without
\* user_id selects them
ExistingEmailIds_Windowed(tbl, u) ==
    {r.email_id : r \in {x \in tbl : x.user_id = u /\ x.recent}}

\* SELECT email_id FROM emails WHERE user_id = ?
ExistingEmailIds(tbl, u) == {r.email_id : r \in {x \in tbl : x.user_id = u}}

\* variant: the stored hashes are not consulted
ExistingHashes_None(tbl, u) == {}

\* SELECT content_hash FROM emails WHERE user_id = ? AND (created_at > ? OR
\* updated_at > ?): the rows written in the last duplicate_check_days days
ExistingHashes(tbl, u) ==
    {r.content_hash : r \in {x \in tbl : x.user_id = u /\ x.recent}}

\* variant: the filter loop without the ids and hashes of the batch itself
DedupeLoop_StoreOnly(batch, existing_email_ids, existing_hashes, current_email_ids, current_hashes, unique_emails) ==
    LET Kept(email) ==
            /\ email.email_id \notin existing_email_ids
            /\ generate_content_hash(email) \notin existing_hashes
        kept == SelectSeq(batch, Kept)
    IN  [i \in 1..Len(kept) |->
            [kept[i] EXCEPT !.content_hash = generate_content_hash(kept[i])]]

\* the filter loop of deduplicate_emails (the email_id of a fetched email is
\* never empty, so the test "if email_id" always passes)
RECURSIVE DedupeLoop(_, _, _, _, _, _)
DedupeLoop(batch, existing_email_ids, existing_hashes, current_email_ids, current_hashes, unique_emails) ==
    IF batch = <<>>
    THEN unique_emails
    ELSE LET email == Head(batch)
             content_hash == generate_content_hash(email)
         IN  IF \/ email.email_id \in existing_email_ids
                \/ email.email_id \in current_email_ids
             THEN DedupeLoop(Tail(batch), existing_email_ids, existing_hashes,
                             current_email_ids, current_hashes, unique_emails)
             ELSE IF \/ content_hash \in existing_hashes
                     \/ content_hash \in current_hashes
             THEN DedupeLoop(Tail(batch), existing_email_ids, existing_hashes,
                             current_email_ids, current_hashes, unique_emails)
             ELSE DedupeLoop(Tail(batch), existing_email_ids, existing_hashes,
                             current_email_ids \cup {email.email_id},
                             current_hashes \cup {content_hash},
                             Append(unique_emails,
                                    [email EXCEPT !.content_hash = content_hash]))

\* deduplicate_emails(emails, user_id); ok is FALSE when a query of the try
\* block raises, and then the except clause returns the input list
deduplicate_emails(batch, u, tbl, ok) ==
    IF batch = <<>> THEN <<>>
    ELSE IF ~ok THEN batch
    ELSE DedupeLoop(batch, ExistingEmailIds(tbl, u), ExistingHashes(tbl, u),
                    {}, {}, <<>>)

\* the row save_email writes; updated_at is now, and the column deleted,
\* which the statement does not name, takes its default 0
Row(email_data, content_hash) ==
    [user_id |-> email_data.user_id, email_id |-> email_data.email_id,
     content_hash |-> content_hash, account_email |-> email_data.account_email,
     processed |-> email_data.processed, date |-> DateOf(email_data),
     recent |-> TRUE, deleted |-> FALSE]

\* UPDATE emails SET deleted = ?, updated_at = now WHERE id = ? AND
\* user_id = ?: the statement of soft_delete_email (1) and restore_email (0)
SetDeleted(tbl, row, flag) ==
    (tbl \ {row}) \cup {[row EXCEPT !.deleted = flag, !.recent = TRUE]}

\* soft_delete_email(email_id, user_id); ok is FALSE when the statement
\* raises, which the except clause turns into the return value False
soft_delete_email(tbl, row, user_id, ok) ==
    IF ~ok \/ row.user_id # user_id THEN tbl ELSE SetDeleted(tbl, row, TRUE)

\* restore_email(email_id, user_id)
restore_email(tbl, row, user_id, ok) ==
    IF ~ok \/ row.user_id # user_id THEN tbl ELSE SetDeleted(tbl, row, FALSE)

\* INSERT OR REPLACE INTO emails, with email_id TEXT UNIQUE and content_hash
\* TEXT UNIQUE: every row in conflict on either column is deleted first
InsertOrReplace(tbl, row) ==
    {r \in tbl : r.email_id # row.email_id /\ r.content_hash # row.content_hash}
        \cup {row}

\* save_email(email_data); ok is FALSE when the statement raises, which the
\* except clause turns into the return value False
save_email(tbl, email_data, ok) ==
    IF ~ok THEN tbl
    ELSE InsertOrReplace(tbl,
            Row(email_data,
                IF email_data.content_hash = NoHash
                THEN generate_content_hash(email_data)
                ELSE email_data.content_hash))

\* get_processed_email_ids(account_email)
get_processed_email_ids(tbl, addr) ==
    {r.email_id : r \in {x \in tbl : x.processed /\ x.account_email = addr}}

\* ai_client.batch_summarize: every email comes back with processed = True
batch_summarize(batch) ==
    [i \in 1..Len(batch) |-> [batch[i] EXCEPT !.processed = TRUE]]

\* no service call in progress
NoSvc == [op |-> "none"]

\* no Database call in progress
NoCall == [op |-> "none", user |-> 0, failed |-> FALSE, batch |-> <<>>,
           result |-> <<>>]

\* ------------------------------------------------------------------------
\* fetch_new_emails and the pipeline body
\* ------------------------------------------------------------------------
\* the account lists of the pipeline's user that SpecPipe starts from
AccountConfigs ==
    {<<>>,
     <<[email |-> "a", is_active |-> TRUE]>>,
     <<[email |-> "a", is_active |-> FALSE]>>}

\* get_user_email_accounts(user_id): SELECT ... ORDER BY created_at DESC, the
\* rows from the newest to the oldest (accounts are added at different
\* seconds, so created_at orders them)
get_user_email_accounts(rows) ==
    [i \in 1..Len(rows) |-> rows[Len(rows) + 1 - i]]

\* save_user_email_account(user_id, email, ...): INSERT OR REPLACE under
\* UNIQUE(user_id, email); the row is written anew, active, with a new
\* created_at; ok is FALSE when the statement raises
save_user_email_account(rows, email, ok) ==
    IF ~ok THEN rows
    ELSE LET Other(row) == row.email # email
         IN  Append(SelectSeq(rows, Other), [email |-> email, is_active |-> TRUE])

\* trigger_processing: the status of the response; 400 refuses a user with
\* no account or with no active account, 200 starts a run
trigger_processing(accounts) ==
    IF accounts = <<>> THEN 400
    ELSE IF ~\E i \in 1..Len(accounts) : accounts[i].is_active THEN 400
    ELSE 200

\* fetch_new_emails(account, since_days, user_id, max_emails): the newest
\* max_emails ids of the search, less the processed ones; ok is FALSE when
\* the connection, the login or the search fails
fetch_new_emails(u, addr, tbl, mbox, ok) ==
    IF ~ok THEN <<>>
    ELSE LET n == Len(mbox[addr])
             first == IF n > max_emails_per_account
                      THEN n - max_emails_per_account + 1 ELSE 1
             email_ids == [i \in 1..(n - first + 1) |-> first + i - 1]
             processed_ids == get_processed_email_ids(tbl, addr)
             IsNew(uid) == <<addr, uid>> \notin processed_ids
             new_ids == SelectSeq(email_ids, IsNew)
         IN  [i \in 1..Len(new_ids) |->
                 Candidate(u, addr, new_ids[i], mbox[addr][new_ids[i]])]

\* the loop over user_accounts: inactive accounts are skipped
RECURSIVE FetchAll(_, _, _, _, _)
FetchAll(u, accounts, tbl, mbox, ok) ==
    IF accounts = <<>> THEN <<>>
    ELSE (IF Head(accounts).is_active
          THEN fetch_new_emails(u, Head(accounts).email, tbl, mbox, ok)
          ELSE <<>>)
         \o FetchAll(u, Tail(accounts), tbl, mbox, ok)

\* the save loop: save_email for every email in turn; the email at position
\* fail_at (0: none) meets a failing statement
RECURSIVE SaveAll(_, _, _, _)
SaveAll(tbl, batch, i, fail_at) ==
    IF i > Len(batch) THEN tbl
    ELSE SaveAll(save_email(tbl, batch[i], i # fail_at), batch, i + 1, fail_at)

\* the email_ids of a list of emails, in its order
Ids(list) == [i \in 1..Len(list) |-> list[i].email_id]

\* the list without its element at position k (0: the whole list)
Without(list, k) ==
    [i \in 1..(IF k \in 1..Len(list) THEN Len(list) - 1 ELSE Len(list)) |->
        IF k \in 1..Len(list) /\ i >= k THEN list[i + 1] ELSE list[i]]

\* the addresses the account loop of process_user_emails fetches, in the
\* order of the loop
FetchedAccounts(accounts) ==
    LET IsActive(account) == account.is_active
        active == SelectSeq(accounts, IsActive)
    IN  [i \in 1..Len(active) |-> active[i].email]

\* what the environment decides for one run
Envs ==
    [cfg_ok : BOOLEAN, fetch_ok : BOOLEAN, dedupe_ok : BOOLEAN,
     save_fail_at : 0..max_emails_per_account, list_ok : BOOLEAN]

CleanEnv(env) ==
    env.cfg_ok /\ env.fetch_ok /\ env.dedupe_ok /\ env.save_fail_at = 0
        /\ env.list_ok

\* the rows of S in the order ORDER BY date DESC, cut after n rows
RECURSIVE TopByDate(_, _)
TopByDate(S, n) ==
    IF S = {} \/ n <= 0 THEN <<>>
    ELSE LET top == CHOOSE r \in S : \A x \in S : x.date <= r.date
         IN  <<top>> \o TopByDate(S \ {top}, n - 1)

\* get_user_emails_filtered(user_id, page=1, per_page): the first per_page
\* rows of the user with deleted IS NULL OR deleted = 0, by date, newest
\* first; ok is FALSE when the query raises, which the except clause turns
\* into an empty list
get_user_emails_filtered(tbl, u, per_page, ok) ==
    IF ~ok THEN <<>>
    ELSE TopByDate({r \in tbl : r.user_id = u /\ ~r.deleted}, per_page)

\* terminal record of a run: saved_ids are the emails whose save_email
\* succeeded, digest_ids the emails of the digest the run saved
Outcome(u, tbl, kind, saved_count, saved_ids, digests, digest_ids, clean) ==
    [emails |-> tbl,
     run |-> [user |-> u, kind |-> kind, saved_count |-> saved_count,
              stored |-> Cardinality(saved_ids), saved_ids |-> saved_ids,
              digests |-> digests, digest_ids |-> digest_ids,
              notes |-> PipelineNotes(kind), clean |-> clean]]

NoRun == [user |-> 0, kind |-> "none", saved_count |-> 0, stored |-> 0,
          saved_ids |-> {}, digest_ids |-> {},
          digests |-> 0, notes |-> <<>>, clean |-> FALSE]

\* the try block of process_user_emails
process_user_emails(u, tbl, accounts, mbox, env) ==
    IF accounts = <<>>
    THEN Outcome(u, tbl, "no_accounts", 0, {}, 0, {}, CleanEnv(env))
    ELSE IF ~env.cfg_ok
    THEN Outcome(u, tbl, "error", 0, {}, 0, {}, FALSE)
    ELSE LET all_new_emails == FetchAll(u, accounts, tbl, mbox, env.fetch_ok)
         IN
         IF all_new_emails = <<>>
         THEN Outcome(u, tbl, "empty", 0, {}, 0, {}, CleanEnv(env))
         ELSE LET deduplicated_emails ==
                      deduplicate_emails(all_new_emails, u, tbl, env.dedupe_ok)
              IN
              IF deduplicated_emails = <<>>
              THEN Outcome(u, tbl, "dups", 0, {}, 0, {}, CleanEnv(env))
              ELSE LET summarized_emails == batch_summarize(deduplicated_emails)
                       saved_count == Len(summarized_emails)
                       fail_at == IF env.save_fail_at <= saved_count
                                  THEN env.save_fail_at ELSE 0
                       tbl2 == SaveAll(tbl, summarized_emails, 1, fail_at)
                       saved_ids ==
                           {summarized_emails[i].email_id :
                               i \in (1..saved_count) \ {fail_at}}
                       recent_emails ==
                           get_user_emails_filtered(tbl2, u, saved_count,
                                                    env.list_ok)
                       digest_ids ==
                           {recent_emails[i].email_id :
                               i \in 1..Len(recent_emails)}
                   IN  IF saved_count > 0 /\ recent_emails # <<>>
                       THEN Outcome(u, tbl2, "saved", saved_count, saved_ids,
                                    1, digest_ids, CleanEnv(env))
                       ELSE Outcome(u, tbl2, "unlisted", saved_count,
                                    saved_ids, 0, {}, FALSE)

\* the lists one run of process_user_emails goes through: the accounts it
\* fetches, all_new_emails, deduplicated_emails and the emails whose
\* save_email succeeded, each in its order
RunLists(u, tbl, accounts, mbox, env) ==
    IF accounts = <<>> \/ ~env.cfg_ok
    THEN [accounts |-> <<>>, merged |-> <<>>, survivors |-> <<>>, persisted |-> <<>>]
    ELSE LET all_new_emails == FetchAll(u, accounts, tbl, mbox, env.fetch_ok)
             deduplicated_emails ==
                 deduplicate_emails(all_new_emails, u, tbl, env.dedupe_ok)
             summarized_emails == batch_summarize(deduplicated_emails)
         IN  [accounts |-> FetchedAccounts(accounts),
              merged |-> Ids(all_new_emails),
              survivors |-> Ids(deduplicated_emails),
              persisted |-> Ids(Without(summarized_emails, env.save_fail_at))]

\* ------------------------------------------------------------------------
\* DigestGenerator: create_digest
\* ------------------------------------------------------------------------
\* the keys of the dict _categorize_emails fills, in their insertion order
DigestBuckets ==
    <<"important", "work", "finance", "social", "shopping", "news", "general">>

\* the bucket the category of an email goes to
BucketOfCategory(category) ==
    IF \E i \in 1..Len(DigestBuckets) : DigestBuckets[i] = category
    THEN category ELSE "general"

\* the list _categorize_emails builds under key: an email of importance 3 or
\* more is appended to "important", and every email to the bucket of its
\* category
RECURSIVE Bucket(_, _)
Bucket(list, key) ==
    IF list = <<>> THEN <<>>
    ELSE LET email == Head(list)
         IN  (IF key = "important" /\ email.importance >= 3
              THEN <<email>> ELSE <<>>)
             \o (IF BucketOfCategory(email.category) = key
                 THEN <<email>> ELSE <<>>)
             \o Bucket(Tail(list), key)

\* _categorize_emails(emails): the dict of the buckets, less the empty ones
categorize_emails(list) ==
    [key \in {DigestBuckets[i] : i \in {j \in 1..Len(DigestBuckets) :
                                            Bucket(list, DigestBuckets[j]) # <<>>}}
        |-> Bucket(list, key)]

\* all_formatted_emails: the buckets one after the other
RECURSIVE AllFormattedEmails(_, _)
AllFormattedEmails(list, i) ==
    IF i > Len(DigestBuckets) THEN <<>>
    ELSE Bucket(list, DigestBuckets[i]) \o AllFormattedEmails(list, i + 1)

\* stats['categories'] of _calculate_digest_stats: the number of emails of
\* each category value that occurs
CategoryStats(list) ==
    [c \in {list[i].category : i \in 1..Len(list)} |->
        Cardinality({i \in 1..Len(list) : list[i].category = c})]

\* create_digest(emails); ok is FALSE when generate_digest_content raises,
\* and then the except clause returns the basic digest
create_digest(list, ok) ==
    IF ok
    THEN [email_count |-> Len(list),
          content |-> [email_count |-> Len(list),
                       emails |-> AllFormattedEmails(list, 1),
                       stats |-> [categories |-> CategoryStats(list)]]]
    ELSE [email_count |-> Len(list),
          content |-> [email_count |-> Len(list),
                       emails |-> <<>>,
                       stats |-> [categories |-> <<>>]]]

\* the category and importance values of the listed emails
DigestCategories == {"work", "general", "system"}

DigestImportances == {1, 2, 3}

\* the listings create_digest can be called with: up to MaxDigest emails
DigestLists ==
    UNION {[1..n -> [category : DigestCategories, importance : DigestImportances]] :
              n \in 0..MaxDigest}

\* ------------------------------------------------------------------------
\* ForwardDetector (src/services/forward_detector.py).  A text is described by
\* what the patterns of the detector find in it: marker, a match of one of
\* forward_body_patterns; from, what the first matching entry of
\* sender_patterns captures; html_marker, a match of one of
\* html_forward_markers; html_from, what _extract_from_html finds in a
\* gmail_quote or blockquote element.
\* ------------------------------------------------------------------------
\* what a match of sender_patterns captures: an address that passes
\* validate_and_clean_email or one that does not, captured by an entry with a
\* 'subject' key ("chain") or by one without ("email"), or a name only
FromKinds ==
    {"none", "chain_valid", "chain_invalid", "email_valid", "email_invalid", "name"}

HtmlFromKinds == {"none", "valid", "invalid"}

\* the empty string
NoText ==
    [present |-> FALSE, marker |-> FALSE, from |-> "none",
     html_marker |-> FALSE, html_from |-> "none"]

\* plain bodies: the HTML patterns are never applied to them
BodyTexts ==
    {NoText} \cup
    [present : {TRUE}, marker : BOOLEAN, from : FromKinds,
     html_marker : {FALSE}, html_from : {"none"}]

HtmlTexts ==
    {NoText} \cup
    [present : {TRUE}, marker : BOOLEAN, from : FromKinds,
     html_marker : BOOLEAN, html_from : HtmlFromKinds]

\* the parsed messages: other_header, one of the forwarding headers other
\* than Resent-From is set; resent_from, the Resent-From header is absent,
\* holds an address, or holds a text without an address; subject_prefix, the
\* subject starts with one of the forward prefixes
FwdMessages ==
    [other_header : BOOLEAN, resent_from : {"absent", "address", "no_address"},
     subject_prefix : BOOLEAN, body : BodyTexts, body_html : HtmlTexts]

\* body if body else body_html
TextOf(body, body_html) == IF body.present THEN body ELSE body_html

\* detect_forwarded_email(msg, subject, body, body_html): <<is_forwarded,
\* confidence>>; ok is FALSE when the try block raises
detect_forwarded_email(msg, subject_prefix, body, body_html, ok) ==
    IF ~ok THEN <<FALSE, 0>>
    ELSE LET header == msg.other_header \/ msg.resent_from # "absent"
             text_to_check == TextOf(body, body_html)
             in_body == text_to_check.present /\ text_to_check.marker
             in_html == body_html.present /\ body_html.html_marker
         IN  <<header \/ subject_prefix \/ in_body \/ in_html,
               (IF header THEN 40 ELSE 0) + (IF subject_prefix THEN 25 ELSE 0)
               + (IF in_body THEN 20 ELSE 0) + (IF in_html THEN 15 ELSE 0)>>

\* len(forward_chain) if forward_chain else (1 if original_email else 0);
\* forward_chain stands for the length of the list
ForwardLevel(forward_chain, original_email) ==
    IF forward_chain > 0 THEN forward_chain
    ELSE IF original_email # "none" THEN 1 ELSE 0

\* extract_original_sender(msg, body, body_html): <<original_email,
\* forward_level, len(forward_chain)>>, with original_email "valid" for a
\* clean address, "raw" for the unvalidated address of Resent-From, "none"
\* for None; ok is FALSE when the try block raises
extract_original_sender(msg, body, body_html, ok) ==
    IF ~ok THEN <<"none", 0, 0>>
    ELSE IF msg.resent_from = "address" THEN <<"raw", 1, 0>>
    ELSE LET text_to_parse == TextOf(body, body_html)
             from == IF text_to_parse.present THEN text_to_parse.from ELSE "none"
             forward_chain == IF from \in {"chain_valid", "chain_invalid"} THEN 1 ELSE 0
             found == CASE from \in {"chain_valid", "email_valid"} -> "valid"
                        [] from \in {"chain_invalid", "email_invalid"} -> "invalid"
                        [] OTHER -> "none"
             from_html == IF found = "none" /\ body_html.present
                          THEN body_html.html_from ELSE found
             original_email == IF from_html = "valid" THEN "valid" ELSE "none"
         IN  <<original_email, ForwardLevel(forward_chain, original_email),
               forward_chain>>

\* the forward fields of the dict fetch_new_emails builds for a message
ForwardFields(msg, detect_ok, extract_ok) ==
    LET detected == detect_forwarded_email(msg, msg.subject_prefix, msg.body,
                                           msg.body_html, detect_ok)
        extracted == extract_original_sender(msg, msg.body, msg.body_html,
                                             extract_ok)
    IN  IF detected[1]
        THEN [is_forwarded |-> TRUE, forward_confidence |-> detected[2],
              original_sender_email |-> extracted[1],
              forward_level |-> extracted[2], forward_chain |-> extracted[3]]
        ELSE [is_forwarded |-> FALSE, forward_confidence |-> detected[2],
              original_sender_email |-> "none",
              forward_level |-> 0, forward_chain |-> 0]

\* ------------------------------------------------------------------------
\* RuleMatcher (src/services/rule_matcher.py).  A text is a sequence of
\* characters and words; a stored keyword column is <<>> for NULL and <<list>> for the
\* JSON text json.dumps wrote for list.
\* ------------------------------------------------------------------------
\* str.lower()
Lower(s) ==
    [i \in 1..Len(s) |-> CASE s[i] = "A" -> "a"
                           [] s[i] = "Meeting" -> "meeting"
                           [] OTHER -> s[i]]

\* str.strip()
RECURSIVE Strip(_)
Strip(s) ==
    IF s = <<>> THEN s
    ELSE IF Head(s) = " " THEN Strip(Tail(s))
    ELSE IF s[Len(s)] = " " THEN Strip(SubSeq(s, 1, Len(s) - 1))
    ELSE s

\* sub in s
Contains(sub, s) ==
    \E i \in 0..(Len(s) - Len(sub)) : SubSeq(s, i + 1, i + Len(sub)) = sub

\* s.endswith(suffix)
EndsWith(s, suffix) ==
    /\ Len(suffix) <= Len(s)
    /\ SubSeq(s, Len(s) - Len(suffix) + 1, Len(s)) = suffix

\* s.startswith('@')
StartsWithAt(s) == s # <<>> /\ Head(s) = "@"

\* json.loads of a stored keyword column
json_loads(stored) == stored[1]

\* all(list) and any(list) of a list of booleans
AllOf(list) == \A i \in 1..Len(list) : list[i]

AnyOf(list) == \E i \in 1..Len(list) : list[i]

\* [f(x) for x in list if p(x)] for the keyword tests of match_keywords
RECURSIVE KeywordTests(_, _)
KeywordTests(keywords, text_lower) ==
    IF keywords = <<>> THEN <<>>
    ELSE (IF Head(keywords) # <<>>
          THEN <<Contains(Strip(Lower(Head(keywords))), text_lower)>>
          ELSE <<>>)
         \o KeywordTests(Tail(keywords), text_lower)

match_sender(sender, pattern, match_type) ==
    IF sender = <<>> \/ pattern = <<>> THEN FALSE
    ELSE LET s == Strip(Lower(sender))
             p == Strip(Lower(pattern))
         IN  CASE match_type = "exact" -> s = p
               [] match_type = "contains" -> Contains(p, s)
               [] match_type = "domain" ->
                      IF StartsWithAt(p) THEN EndsWith(s, p) ELSE Contains(p, s)
               [] OTHER -> Contains(p, s)

match_keywords(text, keywords, logic) ==
    IF keywords = <<>> THEN TRUE
    ELSE IF text = <<>> THEN FALSE
    ELSE LET matches == KeywordTests(keywords, Strip(Lower(text)))
         IN  IF matches = <<>> THEN TRUE
             ELSE IF logic = "AND" THEN AllOf(matches)
             ELSE AnyOf(matches)

\* the three "if <column>:" tests of match_rule and calculate_rule_score
SenderConfigured(rule) == rule.sender_pattern # <<>>

KeywordsConfigured(stored) == stored # <<>> /\ json_loads(stored) # <<>>

\* the list matches of match_rule, as it would be were no dimension to
\* return early: one entry per configured dimension, in the order sender,
\* subject, body
RuleDimensions(rule, email) ==
    (IF SenderConfigured(rule)
     THEN <<match_sender(email.sender, rule.sender_pattern, rule.sender_match_type)>>
     ELSE <<>>)
    \o (IF KeywordsConfigured(rule.subject_keywords)
        THEN <<match_keywords(email.subject, json_loads(rule.subject_keywords),
                              rule.subject_logic)>>
        ELSE <<>>)
    \o (IF KeywordsConfigured(rule.body_keywords)
        THEN <<match_keywords(email.body, json_loads(rule.body_keywords), "OR")>>
        ELSE <<>>)

\* match_rule with "result = all(matches)", without the test for an empty
\* list
match_rule_AllOfMatches(rule, email) ==
    IF ~rule.is_active THEN FALSE
    ELSE AllOf(RuleDimensions(rule, email))

\* match_rule: a dimension that fails returns False at once, which the list
\* of all dimensions shows as a FALSE entry
match_rule(rule, email) ==
    IF ~rule.is_active THEN FALSE
    ELSE LET matches == RuleDimensions(rule, email)
         IN  IF \E i \in 1..Len(matches) : ~matches[i] THEN FALSE
             ELSE IF matches # <<>> THEN AllOf(matches) ELSE FALSE

calculate_rule_score(rule, email) ==
    rule.priority
    + (IF rule.sender_match_type = "exact" THEN 10 ELSE 0)
    + 5 * Len(SelectSeq(<<SenderConfigured(rule),
                          KeywordsConfigured(rule.subject_keywords),
                          KeywordsConfigured(rule.body_keywords)>>,
                        LAMBDA b : b))
    + (IF rule.sender_match_type = "domain" THEN 5 ELSE 0)

\* the inputs match_rule is applied to
SenderPatterns == {<<>>, <<"a", "@", "b">>, <<"@", "b">>, <<"b">>}

MatchTypes == {"exact", "contains", "domain"}

SubjectKeywords ==
    {<<>>, << <<>> >>, << << <<>> >> >>, << << <<"a">> >> >>,
     << << <<"a">>, <<"b">> >> >>}

BodyKeywords == {<<>>, << << <<"b">> >> >>, << << <<"a">>, <<"b">> >> >>}

MatchRules ==
    [is_active : BOOLEAN, sender_pattern : SenderPatterns,
     sender_match_type : MatchTypes, subject_keywords : SubjectKeywords,
     subject_logic : {"AND", "OR"}, body_keywords : BodyKeywords]

MatchEmails ==
    [sender : {<<>>, <<"A", "@", "b">>, <<"b", "@", "a">>},
     subject : {<<>>, <<"A">>, <<"a", "b">>},
     body : {<<>>, <<"b">>, <<"A", " ">>}]

\* ------------------------------------------------------------------------
\* ClassificationService (src/services/classification_service.py).  The
\* table classification_rules is a set of rows; created_at grows with id.
\* ------------------------------------------------------------------------
ClsUsers == {1, 2}

\* the rules the users create: rule 2 has the higher priority and rule 1 the
\* higher score, rules 1 and 3 have equal scores, rule 4 is inert, rule 5 is
\* another user's
RuleCatalog ==
    <<[user_id |-> 1, sender_pattern |-> <<"a", "@", "b">>,
       sender_match_type |-> "exact", subject_keywords |-> <<>>,
       subject_logic |-> "OR", body_keywords |-> <<>>,
       target_category |-> "finance", target_importance |-> 3, priority |-> 5],
      [user_id |-> 1, sender_pattern |-> <<"@", "b">>,
       sender_match_type |-> "domain", subject_keywords |-> <<>>,
       subject_logic |-> "OR", body_keywords |-> <<>>,
       target_category |-> "work", target_importance |-> 4, priority |-> 8],
      [user_id |-> 1, sender_pattern |-> <<>>,
       sender_match_type |-> "exact", subject_keywords |-> << << <<"a">> >> >>,
       subject_logic |-> "OR", body_keywords |-> <<>>,
       target_category |-> "social", target_importance |-> 2, priority |-> 5],
      [user_id |-> 1, sender_pattern |-> <<>>,
       sender_match_type |-> "contains", subject_keywords |-> << <<>> >>,
       subject_logic |-> "OR", body_keywords |-> <<>>,
       target_category |-> "spam", target_importance |-> 1, priority |-> 9],
      [user_id |-> 2, sender_pattern |-> <<"b">>,
       sender_match_type |-> "contains", subject_keywords |-> <<>>,
       subject_logic |-> "OR", body_keywords |-> <<>>,
       target_category |-> "system", target_importance |-> 5, priority |-> 5]>>

RuleIds == 1..Len(RuleCatalog)

\* the row INSERT INTO classification_rules writes
RuleRow(id, is_active) ==
    [id |-> id, is_active |-> is_active, match_count |-> 0] @@ RuleCatalog[id]

\* the emails classify_email is called with
ClsEmails ==
    [sender : {<<"A", "@", "b">>, <<"b", "@", "a">>},
     subject : {<<"a">>, <<"Meeting">>, <<"b">>},
     body : {<<>>, <<"invoice">>}]

\* ORDER BY priority DESC, created_at DESC
RECURSIVE OrderByPriority(_)
OrderByPriority(S) ==
    IF S = {} THEN <<>>
    ELSE LET first == CHOOSE r \in S : \A o \in S :
                          \/ r.priority > o.priority
                          \/ r.priority = o.priority /\ r.id >= o.id
         IN  <<first>> \o OrderByPriority(S \ {first})

\* get_user_rules(user_id, active_only=True); ok is FALSE when the query
\* raises
get_user_rules(tbl, user_id, ok) ==
    IF ok
    THEN OrderByPriority({r \in tbl : r.user_id = user_id /\ r.is_active})
    ELSE <<>>

\* matched_rules.sort(key=score, reverse=True) left as the list was
SortByScore_Unsorted(matched_rules, email) == matched_rules

\* matched_rules.sort(key=score, reverse=True): a stable sort, so rules of
\* equal score keep their order
RECURSIVE SortByScore(_, _)
SortByScore(matched_rules, email) ==
    IF matched_rules = <<>> THEN <<>>
    ELSE LET n == Len(matched_rules)
             score(i) == calculate_rule_score(matched_rules[i], email)
             best == CHOOSE i \in 1..n :
                         /\ \A j \in 1..n : score(i) >= score(j)
                         /\ \A j \in 1..(i - 1) : score(j) < score(i)
         IN  <<matched_rules[best]>>
             \o SortByScore(SubSeq(matched_rules, 1, best - 1)
                            \o SubSeq(matched_rules, best + 1, n), email)

\* find_matching_rule(email, user_id): <<>> for None, else <<best_rule>>
find_matching_rule(tbl, email, user_id, ok) ==
    LET user_rules == get_user_rules(tbl, user_id, ok)
        matched_rules == SelectSeq(user_rules, LAMBDA rule : match_rule(rule, email))
    IN  IF matched_rules = <<>> THEN <<>>
        ELSE <<SortByScore(matched_rules, email)[1]>>

\* _update_rule_stats adding one to the match_count of every rule of the
\* table
update_rule_stats_AllRules(tbl, rule_id, ok) ==
    IF ok
    THEN {[r EXCEPT !.match_count = @ + 1] : r \in tbl}
    ELSE tbl

\* _update_rule_stats(rule_id); ok is FALSE when the UPDATE raises, which
\* the function logs
update_rule_stats(tbl, rule_id, ok) ==
    IF ok
    THEN {IF r.id = rule_id THEN [r EXCEPT !.match_count = @ + 1] ELSE r : r \in tbl}
    ELSE tbl

\* the keywords of _classify_with_keywords that occur in the emails above
high_importance_keywords == <<"meeting">>

medium_importance_keywords == <<"update">>

category_keywords ==
    <<[category |-> "work", keywords |-> <<"meeting">>],
      [category |-> "finance", keywords |-> <<"invoice">>],
      [category |-> "news", keywords |-> <<"update">>]>>

\* any(keyword in text_to_check for keyword in keywords)
AnyKeywordIn(keywords, text_to_check) ==
    \E i \in 1..Len(keywords) : Contains(<<keywords[i]>>, text_to_check)

\* _classify_with_keywords(email): <<category, importance>>
classify_with_keywords(email) ==
    LET text_to_check == Lower(email.subject) \o <<" ">> \o Lower(email.sender)
                         \o <<" ">> \o Lower(email.body)
        importance == IF AnyKeywordIn(high_importance_keywords, text_to_check) THEN 3
                      ELSE IF AnyKeywordIn(medium_importance_keywords, text_to_check) THEN 2
                      ELSE 1
        hits == SelectSeq(category_keywords,
                          LAMBDA c : AnyKeywordIn(c.keywords, text_to_check))
    IN  IF hits # <<>> THEN <<hits[1].category, importance>>
        ELSE <<"general", importance>>

\* classify_email(email, user_id): the tuple returned and the table left
classify_email(tbl, email, user_id, rules_ok, stats_ok) ==
    LET rule == find_matching_rule(tbl, email, user_id, rules_ok)
        kw == classify_with_keywords(email)
    IN  IF rule # <<>>
        THEN [result |-> <<rule[1].target_category, rule[1].target_importance, "rule">>,
              rules |-> update_rule_stats(tbl, rule[1].id, stats_ok)]
        ELSE IF kw[1] # "general"
        THEN [result |-> <<kw[1], kw[2], "keyword">>, rules |-> tbl]
        ELSE [result |-> <<"general", 1, "default">>, rules |-> tbl]

\* the subject, sender and body of a message: they are part of the hashed
\* content, so messages of one hash agree on them
MessageText(email_data) ==
    [sender |-> IF generate_content_hash(email_data) % 2 = 1
                THEN <<"A", "@", "b">> ELSE <<"b", "@", "a">>,
     subject |-> <<"b">>, body |-> <<>>]

\* _categorize_email for every message fetch_new_emails parses, in turn: the
\* rule table the calls of classify_email leave
RECURSIVE CategorizeAll(_, _, _, _, _)
CategorizeAll(tbl, candidates, user_id, rules_ok, stats_ok) ==
    IF candidates = <<>> THEN tbl
    ELSE CategorizeAll(classify_email(tbl, MessageText(Head(candidates)), user_id,
                                      rules_ok, stats_ok).rules,
                       Tail(candidates), user_id, rules_ok, stats_ok)

\* ------------------------------------------------------------------------
\* Initial state: the application has started; start_scheduler registered one
\* job per active user through create_user_schedule.
\* ------------------------------------------------------------------------
\* started are the users that were active when the scheduler started; a user
\* who registers later is given no job, because the registration handler
\* passes an integer where create_user_schedule expects a dict
InitStartedWith(us, nf, started, addrs) ==
    /\ users = us
    /\ scheduler_jobs = {Job(u, DefaultConfig) : u \in started}
    /\ user_jobs = [k \in {IntKey(u) : u \in started} |-> JobId(k[2])]
    /\ current_processing = {}
    /\ current_processing_users = {}
    /\ error_counts = [u \in us |-> 0]
    /\ sched = [u \in us |-> "idle"]
    /\ thread = [u \in us |-> "idle"]
    /\ celery = [u \in us |-> [pc |-> "idle", retries |-> 0]]
    /\ faults = nf
    /\ consec_failed = [u \in us |-> 0]
    /\ last_failed = NoFailure
    /\ skipped = "none"
    /\ emails = {}
    /\ mailbox = [a \in addrs |-> <<>>]
    /\ db_call = NoCall
    /\ pipe_last = NoRun
    /\ pipe_twice = FALSE
    /\ svc_call = NoSvc

InitStarted(us, nf, started) == InitStartedWith(us, nf, started, Addresses)

InitFor(us, nf) == InitStarted(us, nf, us)

Init ==
    /\ InitFor(1..NUsers, MaxFaults)
    /\ email_accounts = [u \in users |-> <<[email |-> "a", is_active |-> TRUE]>>]
    /\ rules = {}

\* SpecErr: enough injected failures to reach the suspension threshold
InitErr ==
    /\ InitFor(1..NErrUsers, error_limit)
    /\ email_accounts = [u \in users |-> <<[email |-> "a", is_active |-> TRUE]>>]
    /\ rules = {}

\* ------------------------------------------------------------------------
\* Scheduled firing: _safe_process_user_emails(user_id)
\* ------------------------------------------------------------------------
\* the job fires (max_instances=1: not while an instance is running) and
\* takes the manager's gate; a rejected firing returns at once
SchedFire(u) ==
    /\ get_job(scheduler_jobs, JobId(u)) # {}
    /\ sched[u] = "idle"
    /\ IF ManagerGateAdmits(current_processing, u)
       THEN /\ current_processing' = current_processing \cup {u}
            /\ sched' = [sched EXCEPT ![u] = "admitted"]
            /\ UNCHANGED skipped
       ELSE /\ skipped' = IF u \in SkipUsers THEN "manager" ELSE skipped
            /\ UNCHANGED <<current_processing, sched>>
    /\ UNCHANGED <<users, scheduler_jobs, user_jobs, current_processing_users,
                   error_counts, thread, celery, faults, consec_failed,
                   last_failed>>
    /\ UNCHANGED <<storeVars, svcVars>>

\* the call process_user_emails(user_id) reaches the pipeline's own gate
SchedCall(u) ==
    /\ sched[u] = "admitted"
    /\ IF AppGateAdmits(current_processing_users, u)
       THEN /\ current_processing_users' = current_processing_users \cup {u}
            /\ sched' = [sched EXCEPT ![u] = "running"]
            /\ UNCHANGED skipped
       ELSE /\ sched' = [sched EXCEPT ![u] = "returned"]
            /\ skipped' = IF u \in SkipUsers THEN "app" ELSE skipped
            /\ UNCHANGED current_processing_users
    /\ UNCHANGED <<users, scheduler_jobs, user_jobs, current_processing,
                   error_counts, thread, celery, faults, consec_failed,
                   last_failed>>
    /\ UNCHANGED <<storeVars, svcVars>>

\* the import or the call raises before the pipeline's try block is entered
SchedCallRaises(u) ==
    /\ sched[u] = "admitted"
    /\ faults > 0
    /\ faults' = faults - 1
    /\ sched' = [sched EXCEPT ![u] = "raised"]
    /\ consec_failed' = [consec_failed EXCEPT ![u] = @ + 1]
    /\ UNCHANGED <<users, scheduler_jobs, user_jobs, current_processing,
                   current_processing_users, error_counts, thread, celery,
                   last_failed>>
    /\ UNCHANGED <<storeVars, svcVars, skipped>>

\* the pipeline body ends with some outcome; its except clause absorbs an
\* exception; the finally block frees the pipeline's slot
SchedPipelineEnd(u) ==
    /\ sched[u] = "running"
    /\ \E kind \in Kinds :
        /\ kind = "error" => faults > 0
        /\ faults' = IF kind = "error" THEN faults - 1 ELSE faults
        /\ current_processing_users' = Discard(current_processing_users, u, kind)
        /\ last_failed' = IF kind = "error"
                          THEN RunRecord(kind, PipelineNotes(kind), FALSE,
                                         u \notin current_processing_users')
                          ELSE last_failed
        /\ consec_failed' = [consec_failed EXCEPT
                                ![u] = IF kind = "error" THEN @ + 1 ELSE 0]
    /\ sched' = [sched EXCEPT ![u] = "returned"]
    /\ UNCHANGED <<users, scheduler_jobs, user_jobs, current_processing,
                   error_counts, thread, celery>>
    /\ UNCHANGED <<storeVars, svcVars, skipped>>

\* after the call: the success bookkeeping or the except clause, then the
\* finally block frees the manager's slot
SchedFinish(u) ==
    /\ sched[u] \in {"returned", "raised"}
    /\ IF sched[u] = "returned"
       THEN /\ error_counts' = [error_counts EXCEPT ![u] = 0]
            /\ UNCHANGED <<scheduler_jobs, user_jobs>>
       ELSE /\ error_counts' = [error_counts EXCEPT ![u] = @ + 1]
            /\ IF error_counts'[u] >= error_limit
               THEN /\ scheduler_jobs' = RemovedJobs(user_jobs, scheduler_jobs, u)
                    /\ user_jobs' = RemovedUserJobs(user_jobs, scheduler_jobs, u)
               ELSE UNCHANGED <<scheduler_jobs, user_jobs>>
    /\ current_processing' = Discard(current_processing, u, sched[u])
    /\ sched' = [sched EXCEPT ![u] = "idle"]
    /\ skipped' = IF u \in SkipUsers THEN "none" ELSE skipped
    /\ UNCHANGED <<users, current_processing_users, thread, celery, faults,
                   consec_failed, last_failed>>
    /\ UNCHANGED <<storeVars, svcVars>>

\* ------------------------------------------------------------------------
\* Manual trigger, thread mode: trigger_processing starts
\* process_user_emails(user_id, True) in a daemon thread, whose first step is
\* the pipeline's gate
\* ------------------------------------------------------------------------
ManualThreadStart(u) ==
    /\ u \in ManualUsers
    /\ trigger_processing(email_accounts[u]) = 200
    /\ thread[u] = "idle"
    /\ IF AppGateAdmits(current_processing_users, u)
       THEN /\ current_processing_users' = current_processing_users \cup {u}
            /\ thread' = [thread EXCEPT ![u] = "running"]
       ELSE UNCHANGED <<current_processing_users, thread>>
    /\ UNCHANGED <<users, scheduler_jobs, user_jobs, current_processing,
                   error_counts, sched, celery, faults, consec_failed,
                   last_failed>>
    /\ UNCHANGED <<storeVars, svcVars, skipped>>

ManualThreadEnd(u) ==
    /\ thread[u] = "running"
    /\ \E kind \in Kinds :
        /\ kind = "error" => faults > 0
        /\ faults' = IF kind = "error" THEN faults - 1 ELSE faults
        /\ current_processing_users' = Discard(current_processing_users, u, kind)
        /\ last_failed' = IF kind = "error"
                          THEN RunRecord(kind, PipelineNotes(kind), FALSE,
                                         u \notin current_processing_users')
                          ELSE last_failed
    /\ thread' = [thread EXCEPT ![u] = "idle"]
    /\ UNCHANGED <<users, scheduler_jobs, user_jobs, current_processing,
                   error_counts, sched, celery, consec_failed>>
    /\ UNCHANGED <<storeVars, svcVars, skipped>>

\* ------------------------------------------------------------------------
\* Manual trigger, Celery mode: trigger_processing submits
\* process_user_emails_async.delay(user_id); a worker runs it
\* ------------------------------------------------------------------------
CeleryStart(u) ==
    /\ u \in ManualUsers
    /\ trigger_processing(email_accounts[u]) = 200
    /\ celery[u].pc = "idle"
    /\ celery' = [celery EXCEPT ![u] = [pc |-> "running", retries |-> 0]]
    /\ UNCHANGED <<users, scheduler_jobs, user_jobs, current_processing,
                   current_processing_users, error_counts, sched, thread,
                   faults, consec_failed, last_failed>>
    /\ UNCHANGED <<storeVars, svcVars, skipped>>

\* the task body ends; on an exception it writes the error notification and
\* calls self.retry, which runs the task again while retries < max_retries
CeleryEnd(u) ==
    /\ celery[u].pc = "running"
    /\ \E kind \in Kinds :
        /\ kind = "error" => faults > 0
        /\ faults' = IF kind = "error" THEN faults - 1 ELSE faults
        /\ LET again == kind = "error" /\ celery[u].retries < max_retries
           IN  /\ last_failed' = IF kind = "error"
                                 THEN RunRecord(kind, AsyncNotes(kind), again, TRUE)
                                 ELSE last_failed
               /\ celery' = [celery EXCEPT ![u] =
                               IF again
                               THEN [pc |-> "running", retries |-> @.retries + 1]
                               ELSE [pc |-> "idle", retries |-> 0]]
    /\ UNCHANGED <<users, scheduler_jobs, user_jobs, current_processing,
                   current_processing_users, error_counts, sched, thread,
                   consec_failed>>
    /\ UNCHANGED <<storeVars, svcVars, skipped>>

Next ==
    \/ \E u \in users : SchedFire(u)
    \/ \E u \in users : SchedCall(u)
    \/ \E u \in users : SchedCallRaises(u)
    \/ \E u \in users : SchedPipelineEnd(u)
    \/ \E u \in users : SchedFinish(u)
    \/ \E u \in users : ManualThreadStart(u)
    \/ \E u \in users : ManualThreadEnd(u)
    \/ \E u \in users : CeleryStart(u)
    \/ \E u \in users : CeleryEnd(u)

Spec == Init /\ [][Next]_vars

SpecErr == InitErr /\ [][Next]_vars

\* ------------------------------------------------------------------------
\* SpecDb: the Database operations, called with any arguments the pipeline
\* can pass
\* ------------------------------------------------------------------------
InitDb ==
    /\ InitFor(DbUsers, 0)
    /\ email_accounts = [u \in users |-> <<>>]
    /\ rules = {}

\* the elements of S in increasing order
RECURSIVE SetToSeq(_)
SetToSeq(S) ==
    IF S = {} THEN <<>>
    ELSE LET m == CHOOSE x \in S : \A y \in S : x <= y
         IN  <<m>> \o SetToSeq(S \ {m})

\* the candidate lists of user u: some messages of a mailbox in the order of
\* their ids, each with some content
BatchOf(u, addr, S, f) ==
    LET uids == SetToSeq(S)
    IN  [i \in 1..Len(uids) |-> Candidate(u, addr, uids[i], f[uids[i]])]

Batches(u) ==
    UNION {{BatchOf(u, addr, S, f) : f \in [S -> Contents]} :
              <<addr, S>> \in Addresses \X SUBSET (1..MaxMsgs)}

\* db.save_email(email_data) with a summarized email of user u
DbSaveEmail(u) ==
    /\ u \in DbUsers
    /\ db_call.op = "none"
    /\ \E addr \in Addresses, uid \in 1..MaxMsgs, c \in Contents, ok \in BOOLEAN :
        LET email_data == [Candidate(u, addr, uid, c) EXCEPT !.processed = TRUE]
        IN  /\ emails' = save_email(emails, email_data, ok)
            /\ db_call' = [op |-> "save_email", user |-> u, failed |-> ~ok,
                           batch |-> <<email_data>>, result |-> <<>>]
    /\ UNCHANGED <<gateVars, svcVars, email_accounts, mailbox, pipe_last, pipe_twice>>

\* db.deduplicate_emails(emails, user_id=u)
DbDeduplicate(u) ==
    /\ u \in DbUsers
    /\ db_call.op = "none"
    /\ \E batch \in Batches(u), ok \in BOOLEAN :
        db_call' = [op |-> "deduplicate_emails", user |-> u, failed |-> ~ok,
                    batch |-> batch,
                    result |-> deduplicate_emails(batch, u, emails, ok)]
    /\ UNCHANGED <<gateVars, svcVars, emails, email_accounts, mailbox, pipe_last,
                   pipe_twice>>

\* the call returns to its caller
DbReturn ==
    /\ db_call.op # "none"
    /\ db_call' = NoCall
    /\ UNCHANGED <<gateVars, svcVars, emails, email_accounts, mailbox, pipe_last,
                   pipe_twice>>

\* more than duplicate_check_days days pass: no stored row is recent any more
DbAge ==
    /\ db_call.op = "none"
    /\ \E r \in emails : r.recent
    /\ emails' = {[r EXCEPT !.recent = FALSE] : r \in emails}
    /\ UNCHANGED <<gateVars, svcVars, email_accounts, mailbox, db_call, pipe_last,
                   pipe_twice>>

\* db.soft_delete_email(email_id, user_id) on a row of user u
DbSoftDelete(u) ==
    /\ u \in DbUsers
    /\ db_call.op = "none"
    /\ \E r \in emails, ok \in BOOLEAN :
        /\ r.user_id = u
        /\ emails' = soft_delete_email(emails, r, u, ok)
    /\ UNCHANGED <<gateVars, svcVars, email_accounts, mailbox, db_call, pipe_last,
                   pipe_twice>>

NextDb ==
    \/ \E u \in users : DbSaveEmail(u)
    \/ \E u \in users : DbDeduplicate(u)
    \/ \E u \in users : DbSoftDelete(u)
    \/ DbReturn
    \/ DbAge

SpecDb == InitDb /\ [][NextDb]_vars

\* ------------------------------------------------------------------------
\* SpecPipe: runs of process_user_emails of one user, one after the other,
\* between deliveries of mail
\* ------------------------------------------------------------------------
InitPipe ==
    /\ InitFor(PipeUsers, 0)
    /\ \E accounts \in AccountConfigs : email_accounts = [u \in users |-> accounts]
    /\ rules = {}

\* a message with content c arrives in the mailbox of addr
Deliver(addr) ==
    /\ Len(mailbox[addr]) < MaxMsgs
    /\ \E c \in Contents :
        mailbox' = [mailbox EXCEPT ![addr] = Append(@, c)]
    /\ pipe_last' = NoRun
    /\ pipe_twice' = FALSE
    /\ UNCHANGED <<gateVars, svcVars, emails, email_accounts, db_call>>

\* more than duplicate_check_days days pass
PipeAge ==
    /\ \E r \in emails : r.recent
    /\ emails' = {[r EXCEPT !.recent = FALSE] : r \in emails}
    /\ pipe_last' = NoRun
    /\ pipe_twice' = FALSE
    /\ UNCHANGED <<gateVars, svcVars, email_accounts, mailbox, db_call>>

\* one run of process_user_emails(u), from its gate to its finally block
RunPipeline(u) ==
    /\ AppGateAdmits(current_processing_users, u)
    /\ \E env \in Envs :
        LET out == process_user_emails(u, emails,
                                       get_user_email_accounts(email_accounts[u]),
                                       mailbox, env)
        IN  /\ emails' = out.emails
            /\ pipe_last' = out.run
            /\ pipe_twice' = (pipe_last.user = u /\ pipe_last.clean)
    /\ UNCHANGED <<gateVars, svcVars, email_accounts, mailbox, db_call>>

\* POST /api/emails/<id>/delete: the user moves one of their emails to the
\* trash
SoftDeleteEmail(u) ==
    /\ \E r \in emails, ok \in BOOLEAN :
        /\ r.user_id = u
        /\ emails' = soft_delete_email(emails, r, u, ok)
    /\ pipe_last' = NoRun
    /\ pipe_twice' = FALSE
    /\ UNCHANGED <<gateVars, svcVars, email_accounts, mailbox, db_call>>

\* POST /api/emails/<id>/restore: the user restores one of their emails
\* from the trash
RestoreEmail(u) ==
    /\ \E r \in emails, ok \in BOOLEAN :
        /\ r.user_id = u
        /\ r.deleted
        /\ emails' = restore_email(emails, r, u, ok)
    /\ pipe_last' = NoRun
    /\ pipe_twice' = FALSE
    /\ UNCHANGED <<gateVars, svcVars, email_accounts, mailbox, db_call>>

NextPipe ==
    \/ \E addr \in Addresses : Deliver(addr)
    \/ PipeAge
    \/ \E u \in users : RunPipeline(u)

SpecPipe == InitPipe /\ [][NextPipe]_vars

\* SpecTrash: the runs of SpecPipe, with a user who moves emails to the trash
\* and restores them between the runs
NextTrash ==
    \/ \E addr \in Addresses : Deliver(addr)
    \/ PipeAge
    \/ \E u \in users : RunPipeline(u)
    \/ \E u \in users : SoftDeleteEmail(u)
    \/ \E u \in users : RestoreEmail(u)

SpecTrash == InitPipe /\ [][NextTrash]_vars

\* ------------------------------------------------------------------------
\* SpecSvc: the digest generator and the classification service, called
\* with any arguments
\* ------------------------------------------------------------------------
InitSvc ==
    /\ InitFor(PipeUsers, 0)
    /\ email_accounts = [u \in users |-> <<>>]
    /\ rules = {}

\* digest_generator.create_digest(recent_emails)
CreateDigest ==
    /\ svc_call.op = "none"
    /\ \E list \in DigestLists, ok \in BOOLEAN :
        svc_call' = [op |-> "create_digest", emails |-> list, failed |-> ~ok,
                     digest |-> create_digest(list, ok)]
    /\ UNCHANGED <<gateVars, storeVars, rules>>

\* the call returns to its caller
SvcReturn ==
    /\ svc_call.op # "none"
    /\ svc_call' = NoSvc
    /\ UNCHANGED <<gateVars, storeVars, rules>>

NextSvc ==
    \/ CreateDigest
    \/ SvcReturn

SpecSvc == InitSvc /\ [][NextSvc]_vars

\* ------------------------------------------------------------------------
\* SpecMatch: RuleMatcher.match_rule applied to any rule and email
\* ------------------------------------------------------------------------
MatchRule ==
    /\ svc_call.op = "none"
    /\ \E rule \in MatchRules, email \in MatchEmails :
        svc_call' = [op |-> "match_rule", rule |-> rule, email |-> email,
                     result |-> match_rule(rule, email)]
    /\ UNCHANGED <<gateVars, storeVars, rules>>

NextMatch ==
    \/ MatchRule
    \/ SvcReturn

SpecMatch == InitSvc /\ [][NextMatch]_vars

\* ------------------------------------------------------------------------
\* SpecCls: users create, switch and delete rules while emails are
\* classified
\* ------------------------------------------------------------------------
\* create_rule(user_id, rule_data)
CreateRule(id) ==
    /\ svc_call.op = "none"
    /\ \A r \in rules : r.id # id
    /\ \E is_active \in BOOLEAN : rules' = rules \cup {RuleRow(id, is_active)}
    /\ UNCHANGED <<gateVars, storeVars, svc_call>>

\* update_rule(rule_id, {'is_active': ...})
UpdateRule(id) ==
    /\ svc_call.op = "none"
    /\ \E r \in rules :
        /\ r.id = id
        /\ rules' = (rules \ {r}) \cup {[r EXCEPT !.is_active = ~r.is_active]}
    /\ UNCHANGED <<gateVars, storeVars, svc_call>>

\* delete_rule(rule_id)
DeleteRule(id) ==
    /\ svc_call.op = "none"
    /\ \E r \in rules : r.id = id /\ rules' = rules \ {r}
    /\ UNCHANGED <<gateVars, storeVars, svc_call>>

\* classify_email(email, user_id)
ClassifyEmail(u) ==
    /\ svc_call.op = "none"
    /\ \A r \in rules : r.match_count < MaxMatchCount
    /\ \E email \in ClsEmails, rules_ok \in BOOLEAN, stats_ok \in BOOLEAN :
        LET out == classify_email(rules, email, u, rules_ok, stats_ok)
        IN  /\ svc_call' = [op |-> "classify_email", user |-> u, email |-> email,
                            rules_ok |-> rules_ok, stats_ok |-> stats_ok,
                            before |-> rules, result |-> out.result]
            /\ rules' = out.rules
    /\ UNCHANGED <<gateVars, storeVars>>

NextCls ==
    \/ \E id \in RuleIds : CreateRule(id)
    \/ \E id \in RuleIds : UpdateRule(id)
    \/ \E id \in RuleIds : DeleteRule(id)
    \/ \E u \in ClsUsers : ClassifyEmail(u)
    \/ SvcReturn

SpecCls == InitSvc /\ [][NextCls]_vars

\* ------------------------------------------------------------------------
\* SpecSched: schedules are created, updated through the settings page and
\* removed
\* ------------------------------------------------------------------------
InitSched ==
    /\ \E started \in {DbUsers, {1}} : InitStarted(DbUsers, 0, started)
    /\ email_accounts = [u \in users |-> <<>>]
    /\ rules = {}

\* create_user_schedule(user_id, schedule_config)
CreateUserSchedule(u) ==
    /\ svc_call.op = "none"
    /\ \E config \in ScheduleConfigs :
        LET out == create_user_schedule(scheduler_jobs, user_jobs, u, config)
        IN  /\ scheduler_jobs' = out.jobs
            /\ user_jobs' = out.user_jobs
            /\ svc_call' = [op |-> "create_user_schedule", user |-> u,
                            config |-> config, registered |-> out.registered,
                            before |-> scheduler_jobs]
    /\ UNCHANGED <<users, current_processing, current_processing_users,
                   error_counts, sched, thread, celery, faults, consec_failed,
                   last_failed, skipped, storeVars, rules>>

\* save_user_config with a schedule setting among the saved keys
SaveUserConfig(u) ==
    /\ svc_call.op = "none"
    /\ \E user_configs \in StoredConfigs, ok \in BOOLEAN :
        LET config == get_user_schedule_config(user_configs, ok)
            out == create_user_schedule(scheduler_jobs, user_jobs, u, config)
        IN  /\ scheduler_jobs' = out.jobs
            /\ user_jobs' = out.user_jobs
            /\ svc_call' = [op |-> "save_user_config", user |-> u,
                            config |-> config, registered |-> out.registered,
                            before |-> scheduler_jobs]
    /\ UNCHANGED <<users, current_processing, current_processing_users,
                   error_counts, sched, thread, celery, faults, consec_failed,
                   last_failed, skipped, storeVars, rules>>

\* remove_user_schedule(user_id)
RemoveUserSchedule(u) ==
    /\ svc_call.op = "none"
    /\ scheduler_jobs' = RemovedJobs(user_jobs, scheduler_jobs, u)
    /\ user_jobs' = RemovedUserJobs(user_jobs, scheduler_jobs, u)
    /\ svc_call' = [op |-> "remove_user_schedule", user |-> u,
                    before |-> scheduler_jobs]
    /\ UNCHANGED <<users, current_processing, current_processing_users,
                   error_counts, sched, thread, celery, faults, consec_failed,
                   last_failed, skipped, storeVars, rules>>

NextSched ==
    \/ \E u \in users : CreateUserSchedule(u)
    \/ \E u \in users : SaveUserConfig(u)
    \/ \E u \in users : RemoveUserSchedule(u)
    \/ SvcReturn

SpecSched == InitSched /\ [][NextSched]_vars

\* ------------------------------------------------------------------------
\* SpecOrder: runs of process_user_emails of one user who adds accounts, with
\* the lists each run goes through
\* ------------------------------------------------------------------------
OrderAddresses == {"a", "b"}

\* the rule tables SpecOrder starts from: no rule, or the domain rule of
\* user 1, active
OrderRules == {{}, {RuleRow(2, TRUE)}}

InitOrder ==
    /\ InitStartedWith(PipeUsers, 0, PipeUsers, OrderAddresses)
    /\ email_accounts = [u \in users |-> <<>>]
    /\ rules \in OrderRules

\* the user adds the account addr, or saves it again
AddAccount(u, addr) ==
    /\ svc_call.op = "none"
    /\ \E ok \in BOOLEAN :
        email_accounts' = [email_accounts EXCEPT
                              ![u] = save_user_email_account(@, addr, ok)]
    /\ pipe_last' = NoRun
    /\ pipe_twice' = FALSE
    /\ UNCHANGED <<gateVars, svcVars, emails, mailbox, db_call>>

\* a message with content c arrives in the mailbox of addr
DeliverTo(addr) ==
    /\ svc_call.op = "none"
    /\ Len(mailbox[addr]) < MaxOrderMsgs
    /\ \E c \in Contents :
        mailbox' = [mailbox EXCEPT ![addr] = Append(@, c)]
    /\ pipe_last' = NoRun
    /\ pipe_twice' = FALSE
    /\ UNCHANGED <<gateVars, svcVars, emails, email_accounts, db_call>>

\* one run of process_user_emails(u), with the lists it went through;
\* fetch_new_emails classifies every message it parses
RunPipelineLists(u) ==
    /\ svc_call.op = "none"
    /\ AppGateAdmits(current_processing_users, u)
    /\ \A r \in rules : r.match_count < MaxMatchCount
    /\ \E env \in Envs, rules_ok \in BOOLEAN, stats_ok \in BOOLEAN :
        LET accounts == get_user_email_accounts(email_accounts[u])
            out == process_user_emails(u, emails, accounts, mailbox, env)
            fetched == IF accounts = <<>> \/ ~env.cfg_ok THEN <<>>
                       ELSE FetchAll(u, accounts, emails, mailbox, env.fetch_ok)
        IN  /\ emails' = out.emails
            /\ pipe_last' = out.run
            /\ pipe_twice' = (pipe_last.user = u /\ pipe_last.clean)
            /\ rules' = CategorizeAll(rules, fetched, u, rules_ok, stats_ok)
            /\ svc_call' = [op |-> "process_user_emails", user |-> u,
                            lists |-> RunLists(u, emails, accounts, mailbox, env),
                            before |-> rules]
    /\ UNCHANGED <<gateVars, email_accounts, mailbox, db_call>>

NextOrder ==
    \/ \E u \in users, addr \in OrderAddresses : AddAccount(u, addr)
    \/ \E addr \in OrderAddresses : DeliverTo(addr)
    \/ \E u \in users : RunPipelineLists(u)
    \/ SvcReturn

SpecOrder == InitOrder /\ [][NextOrder]_vars

\* ------------------------------------------------------------------------
\* SpecFwd: fetch_new_emails builds the forward fields of a candidate from
\* any parsed message
\* ------------------------------------------------------------------------
\* the part of fetch_new_emails that detects a forward and extracts the
\* original sender
DetectForward ==
    /\ svc_call.op = "none"
    /\ \E msg \in FwdMessages, detect_ok \in BOOLEAN, extract_ok \in BOOLEAN :
        svc_call' = [op |-> "fetch_new_emails", msg |-> msg,
                     email_data |-> ForwardFields(msg, detect_ok, extract_ok)]
    /\ UNCHANGED <<gateVars, storeVars, rules>>

NextFwd ==
    \/ DetectForward
    \/ SvcReturn

SpecFwd == InitSvc /\ [][NextFwd]_vars

\* ------------------------------------------------------------------------
\* Properties
\* ------------------------------------------------------------------------
\* runs of u that are inside the pipeline body
RunsExecuting(u) ==
    (IF sched[u] = "running" THEN 1 ELSE 0)
    + (IF thread[u] = "running" THEN 1 ELSE 0)
    + (IF celery[u].pc = "running" THEN 1 ELSE 0)

\* users with a run of their pipeline inside the pipeline body
UsersExecuting == {u \in users : RunsExecuting(u) > 0}

\* C1: for every user at most one run of the pipeline is executing, for
\* scheduled firings, manual threads and manual Celery tasks together.
C1_SingleFlight == \A u \in users : RunsExecuting(u) <= 1

\* C2: the number of users whose pipeline is executing never exceeds
\* max_concurrent_users, for any interleaving of scheduled firings and manual
\* triggers.
C2_GlobalCap == Cardinality(UsersExecuting) <= max_concurrent_users

\* C3: no slot is leaked.  A user is in the manager's current_processing only
\* while a scheduled firing of that user is between its admission and its
\* finally block, and in the pipeline's current_processing_users only while
\* a run of that user is inside the pipeline body; so with no run executing
\* both sets are empty.
C3_NoLeak ==
    /\ \A u \in users :
          /\ u \in current_processing <=> sched[u] # "idle"
          /\ u \in current_processing_users
                <=> (sched[u] = "running" \/ thread[u] = "running")
    /\ (\A u \in users : sched[u] = "idle" /\ thread[u] = "idle")
          => (current_processing = {} /\ current_processing_users = {})

\* C3 witness: a scheduled run raised, has ended, and nothing is executing
\* and both sets are empty.
C3_Witness ==
    /\ \E u \in users : consec_failed[u] > 0
    /\ \A u \in users : sched[u] = "idle" /\ thread[u] = "idle"
    /\ current_processing = {}
    /\ current_processing_users = {}

\* C6: after five consecutive failed scheduled runs of u the job of u is no
\* longer registered (so no further firing of u happens).
C6_SuspendedAfterFive ==
    \A u \in users :
        (sched[u] = "idle" /\ consec_failed[u] >= error_limit)
            => get_job(scheduler_jobs, JobId(u)) = {}

\* C7: between firings error_counts[u] equals the number of consecutive
\* failed scheduled runs of u since the last successful one.
C7_ErrorCountExact ==
    \A u \in users : sched[u] = "idle" => error_counts[u] = consec_failed[u]

\* C10: a run that raised wrote exactly one error notification, released its
\* slot and was not re-queued automatically.
C10_FailedRun ==
    last_failed.kind = "error"
        => /\ Len(last_failed.notes) = 1
           /\ last_failed.notes[1].type = "error"
           /\ last_failed.released
           /\ ~last_failed.retried

\* the content hash an email is stored under
HashOf(email_data) ==
    IF email_data.content_hash = NoHash
    THEN generate_content_hash(email_data)
    ELSE email_data.content_hash

\* no two emails of the list share an email_id or a content hash
UniqueKeys(list) ==
    \A i, j \in 1..Len(list) :
        i # j => /\ list[i].email_id # list[j].email_id
                 /\ HashOf(list[i]) # HashOf(list[j])

\* C4: save_email for user A leaves every stored row of every other user in
\* the table, unchanged.
C4_SaveKeepsOtherUsers ==
    [][(db_call.op = "none" /\ db_call'.op = "save_email")
          => \A r \in emails : r.user_id # db_call'.user => r \in emails']_vars

\* C5: no two emails of the list deduplicate_emails returns have the same
\* email_id, and no two have the same content hash.
C5_DedupeUnique ==
    db_call.op = "deduplicate_emails" => UniqueKeys(db_call.result)

\* C5, amended: the same, for calls whose queries of the store succeed.
C5_DedupeUniqueWhenQueriesSucceed ==
    (db_call.op = "deduplicate_emails" /\ ~db_call.failed)
        => UniqueKeys(db_call.result)

\* C5 witness: a call whose queries succeeded, on a batch holding two emails
\* of the same content hash, of which one is returned.
C5_Witness ==
    /\ db_call.op = "deduplicate_emails"
    /\ ~db_call.failed
    /\ ~UniqueKeys(db_call.batch)
    /\ Len(db_call.result) >= 1

\* the user of the latest run has at least one account row
HasAccount == pipe_last.user \in users /\ email_accounts[pipe_last.user] # <<>>

\* the user of the latest run has at least one active account
HasActiveAccount ==
    /\ pipe_last.user \in users
    /\ \E i \in 1..Len(email_accounts[pipe_last.user]) :
          email_accounts[pipe_last.user][i].is_active

OutcomeType(kind) ==
    CASE kind \in {"empty", "dups"}     -> "info"
      [] kind \in {"saved", "unlisted"} -> "success"
      [] OTHER                          -> "error"

\* C9: a run for a user with an active account has written exactly one
\* notification when it ends, of the type of its outcome.
C9_OneNotificationPerRun ==
    (pipe_last.kind # "none" /\ HasActiveAccount)
        => /\ Len(pipe_last.notes) = 1
           /\ pipe_last.notes[1].type = OutcomeType(pipe_last.kind)

\* C11: a run saves a digest if and only if it persisted at least one email,
\* and then exactly one.
C11_DigestIffPersisted ==
    pipe_last.kind # "none"
        => /\ pipe_last.digests <= 1
           /\ pipe_last.digests = 1 <=> pipe_last.stored >= 1

\* C13: the digest of a run that met no failure holds exactly the emails
\* that run persisted, whatever the user already had in the store.
C13_DigestOfSavedEmails ==
    (pipe_last.digests = 1 /\ pipe_last.clean)
        => pipe_last.digest_ids = pipe_last.saved_ids

\* the sum of the values of a function with a finite domain
RECURSIVE SumOf(_)
SumOf(f) ==
    IF DOMAIN f = {} THEN 0
    ELSE LET k == CHOOSE x \in DOMAIN f : TRUE
         IN  f[k] + SumOf([x \in DOMAIN f \ {k} |-> f[x]])

\* C12: for a digest create_digest built without an exception, email_count
\* is the number of entries of content.emails, and the counts of
\* content.stats.categories sum to email_count.
C12_DigestCounts ==
    (svc_call.op = "create_digest" /\ ~svc_call.failed)
        => /\ svc_call.digest.email_count = Len(svc_call.digest.content.emails)
           /\ SumOf(svc_call.digest.content.stats.categories)
                 = svc_call.digest.email_count


MatchingRules ==
    {r \in svc_call.before :
        r.user_id = svc_call.user /\ r.is_active /\ match_rule(r, svc_call.email)}

\* a matching rule no other matching rule outscores
IsWinner(r) ==
    /\ r \in MatchingRules
    /\ \A o \in MatchingRules :
        calculate_rule_score(o, svc_call.email) <= calculate_rule_score(r, svc_call.email)

\* classify_email returned the targets of rule r with method "rule"
ReturnsRule(r) ==
    svc_call.result = <<r.target_category, r.target_importance, "rule">>

\* C14: whenever classify_email(email, u) returns method "rule", the
\* category and importance returned are the targets of an active rule of u
\* that matches the email, and no other active matching rule of u has a
\* strictly higher score.
C14_RuleResultIsTopScore ==
    (svc_call.op = "classify_email" /\ svc_call.result[3] = "rule")
        => \E r \in svc_call.before :
            /\ IsWinner(r)
            /\ svc_call.result[1] = r.target_category
            /\ svc_call.result[2] = r.target_importance

\* two rules of different scores matched and the one of lower priority and
\* higher score was returned
C14_Witness ==
    /\ svc_call.op = "classify_email"
    /\ svc_call.result = <<"finance", 3, "rule">>
    /\ \E r \in MatchingRules : r.target_category = "work"

\* C15: whenever at least one active rule of the user matches the email,
\* classify_email returns the winning rule's (target_category,
\* target_importance, "rule") whatever the keyword layer would give, adds
\* exactly one to the winning rule's match_count and leaves every other
\* rule's match_count unchanged.
C15_RuleWinsAndCounts ==
    (svc_call.op = "classify_email" /\ MatchingRules # {})
        => \E r \in svc_call.before :
            /\ IsWinner(r)
            /\ ReturnsRule(r)
            /\ rules = (svc_call.before \ {r})
                       \cup {[r EXCEPT !.match_count = @ + 1]}

\* C15, amended: the same when the rule query and the statistics update
\* succeed.  When the rule query raises, no rule is applied and no count
\* changes; when the statistics update raises, the winning rule's targets
\* are returned and no count changes.
C15_RuleWinsAndCountsWhenStoreAnswers ==
    (svc_call.op = "classify_email" /\ MatchingRules # {})
        => IF svc_call.rules_ok
           THEN \E r \in svc_call.before :
                    /\ IsWinner(r)
                    /\ ReturnsRule(r)
                    /\ rules = IF svc_call.stats_ok
                               THEN (svc_call.before \ {r})
                                    \cup {[r EXCEPT !.match_count = @ + 1]}
                               ELSE svc_call.before
           ELSE svc_call.result[3] # "rule" /\ rules = svc_call.before

\* a rule was applied to an email the keyword layer puts in another
\* category, and its count went up while another matching rule's did not
C15_Witness ==
    /\ svc_call.op = "classify_email"
    /\ svc_call.rules_ok /\ svc_call.stats_ok
    /\ svc_call.result[3] = "rule"
    /\ classify_with_keywords(svc_call.email)[1] \notin {"general", svc_call.result[1]}
    /\ Cardinality(MatchingRules) >= 2
    /\ rules # svc_call.before


\* a step of the scheduled firing of u: one that is no stuttering step
\* changes the position of the firing or the record of skipped firings
StepOf(u) == sched'[u] # sched[u] \/ skipped' # skipped

\* C17: a firing that finds the cap reached, or its own user already in
\* the set of its gate, is skipped and not queued: the step leaves
\* current_processing and current_processing_users unchanged, the firing
\* executes no pipeline step, and no notification or other record is
\* written.
C17_SkippedFiringLeavesNoTrace ==
    [][\A u \in users :
        /\ (/\ sched[u] = "idle" /\ StepOf(u)
            /\ \/ Cardinality(current_processing) >= max_concurrent_users
               \/ u \in current_processing
            /\ SchedFire(u))
            => UNCHANGED <<current_processing, current_processing_users, sched,
                           error_counts, consec_failed, last_failed, storeVars>>
        /\ (/\ sched[u] = "admitted" /\ StepOf(u)
            /\ \/ Cardinality(current_processing_users) >= MAX_CONCURRENT_USERS
               \/ u \in current_processing_users
            /\ SchedCall(u))
            => /\ sched'[u] = "returned"
               /\ UNCHANGED <<current_processing, current_processing_users,
                              error_counts, consec_failed, last_failed, storeVars>>
        /\ (u \in SkipUsers /\ skipped = "app")
            => /\ ~SchedPipelineEnd(u)
               /\ SchedFinish(u) => current_processing' = current_processing \ {u}
      ]_vars

\* a firing was skipped at the manager's gate with the cap reached
C17_Witness ==
    /\ skipped = "manager"
    /\ \E u \in SkipUsers : sched[u] = "idle" /\ u \notin current_processing
    /\ Cardinality(current_processing) >= max_concurrent_users

\* users with a scheduled firing between its admission and its release, or
\* with a pipeline executing
UsersBusy == {u \in users : sched[u] # "idle"} \cup UsersExecuting

FiringTimes(trigger) == trigger.hour \X trigger.minute

\* the trigger a configuration describes: an interval with the user's
\* start offset, or the times of day of a cron or custom configuration
Described(trigger, u, config) ==
    LET type == Get(config, "type", "interval")
        rule == Get(config, "custom_rule", "hourly")
        m == Get(config, "cron_minutes", <<0>>)[1]
        n == Get(config, "n_hours", 6)
    IN  CASE type = "interval" ->
                 /\ trigger.trigger = "interval"
                 /\ trigger.minutes = Get(config, "interval_minutes", 30)
                 /\ trigger.start_offset = (u * 3) % 30
          [] type = "cron" ->
                 /\ trigger.trigger = "cron"
                 /\ FiringTimes(trigger) =
                        {<<config.cron_hours[i], config.cron_minutes[j]>> :
                            i \in DOMAIN config.cron_hours,
                            j \in DOMAIN config.cron_minutes}
          [] type = "custom" ->
                 /\ trigger.trigger = "cron"
                 /\ FiringTimes(trigger) =
                        {<<h, m>> : h \in
                            {h \in Hours :
                                CASE rule = "hourly" -> TRUE
                                  [] rule = "even_hours" -> h % 2 = 0
                                  [] rule = "odd_hours" -> h % 2 = 1
                                  [] OTHER -> h % n = 0}}
          [] OTHER -> FALSE

\* C19: after any sequence of create_user_schedule calls, configuration
\* updates and remove_user_schedule calls the scheduler holds at most one
\* job per user, and it has the id user_<id>_email_processing; after a
\* create_user_schedule(u, cfg) that registers a job, the only trigger of u
\* is the one cfg describes.
C19_OneJobPerUser ==
    /\ \A u \in users : Cardinality({j \in scheduler_jobs : j.args = u}) <= 1
    /\ \A j \in scheduler_jobs : j.id = JobId(j.args)
    /\ (/\ svc_call.op \in {"create_user_schedule", "save_user_config"}
        /\ svc_call.registered)
        => /\ \E j \in scheduler_jobs : j.args = svc_call.user
           /\ \A j \in scheduler_jobs :
                j.args = svc_call.user
                    => Described(j.trigger, svc_call.user, svc_call.config)

\* a call registered a job for a user who had a job with another trigger
C19_Witness ==
    /\ svc_call.op = "create_user_schedule"
    /\ svc_call.registered
    /\ Get(svc_call.config, "type", "interval") = "custom"
    /\ \E j \in svc_call.before :
        j.args = svc_call.user /\ j.trigger.trigger = "cron" /\ j \notin scheduler_jobs


\* C20: for a user with no active account, whether with no account or with
\* deactivated accounts only, the manual-trigger endpoint refuses, and a
\* scheduled firing ends without fetching or saving anything and without
\* writing a notification.
C20_NoActiveAccountNoTrace ==
    /\ \A u \in users :
        (~\E i \in 1..Len(email_accounts[u]) : email_accounts[u][i].is_active)
            => trigger_processing(email_accounts[u]) = 400
    /\ (pipe_last.kind # "none" /\ ~HasActiveAccount)
        => /\ pipe_last.saved_count = 0
           /\ pipe_last.stored = 0
           /\ pipe_last.notes = <<>>

\* C21: a soft-deleted email of the user is still stored, and still marked
\* deleted, after any pipeline run of the user, whatever the run fetched
C21_DeletedStaysDeleted ==
    [][\A u \in PipeUsers :
          \A r \in emails :
              (r.user_id = u /\ r.deleted /\ RunPipeline(u))
                  => \E x \in emails' :
                         x.user_id = u /\ x.email_id = r.email_id /\ x.deleted]_vars

\* the email at position i of the listing is in the bucket key of the grouping
InBucket(list, key, i) ==
    /\ key \in DOMAIN categorize_emails(list)
    /\ \E j \in 1..Len(categorize_emails(list)[key]) :
        categorize_emails(list)[key][j] = list[i]

\* C28: in the grouping of a digest every email is in the bucket of its own
\* category, and in the bucket important exactly when its importance is at
\* least 2; no bucket of the grouping is empty
C28_BucketOfOwnCategory ==
    svc_call.op = "create_digest"
        => /\ \A i \in 1..Len(svc_call.emails) :
                /\ InBucket(svc_call.emails, svc_call.emails[i].category, i)
                /\ InBucket(svc_call.emails, "important", i)
                    <=> svc_call.emails[i].importance >= 2
           /\ \A key \in DOMAIN categorize_emails(svc_call.emails) :
                categorize_emails(svc_call.emails)[key] # <<>>

\* candidate e has the email_id of a stored row of u, or the content hash of
\* a row of u written in the last duplicate_check_days days
HitsStore(e, u) ==
    \E r \in emails :
        /\ r.user_id = u
        /\ r.email_id = e.email_id \/ (r.recent /\ r.content_hash = HashOf(e))

\* candidate j of the batch has the content hash of a returned email that
\* stands before it in the batch (the ids of a batch are distinct)
HitsEarlierSurvivor(batch, result, j) ==
    \E k \in 1..Len(result), i \in 1..(j - 1) :
        /\ batch[i].email_id = result[k].email_id
        /\ HashOf(result[k]) = HashOf(batch[j])

\* what C23 says of a call of deduplicate_emails and its result
DedupeFilters(batch, result, u) ==
    /\ \A k \in 1..Len(result) : ~HitsStore(result[k], u)
    /\ \A j \in 1..Len(batch) :
        (~HitsStore(batch[j], u) /\ ~HitsEarlierSurvivor(batch, result, j))
            => \E k \in 1..Len(result) : result[k].email_id = batch[j].email_id

\* C23: no email returned by deduplicate_emails(B, u) has an email_id stored
\* for u, at any age and soft-deleted or not, or a content hash stored for u
\* in the window; a candidate that hits neither the store nor an earlier
\* survivor of the batch is returned
C23_DedupeFilters ==
    db_call.op = "deduplicate_emails"
        => DedupeFilters(db_call.batch, db_call.result, db_call.user)

\* C23, amended: the same, for calls whose queries of the store succeed
C23_DedupeFiltersWhenQueriesSucceed ==
    (db_call.op = "deduplicate_emails" /\ ~db_call.failed)
        => DedupeFilters(db_call.batch, db_call.result, db_call.user)

\* C23 witness: a call whose queries succeeded dropped a candidate for the id
\* of a soft-deleted row older than the window, and returned another one
C23_Witness ==
    /\ db_call.op = "deduplicate_emails"
    /\ ~db_call.failed
    /\ Len(db_call.result) >= 1
    /\ \E r \in emails, j \in 1..Len(db_call.batch) :
        /\ r.user_id = db_call.user /\ r.deleted /\ ~r.recent
        /\ db_call.batch[j].email_id = r.email_id
        /\ \A k \in 1..Len(db_call.result) :
            db_call.result[k].email_id # r.email_id

\* the elements of list are among those of of, and stand in list in the order
\* in which they stand in of
KeepsOrder(list, of) ==
    /\ \A i \in 1..Len(list) : \E j \in 1..Len(of) : of[j] = list[i]
    /\ \A i1, i2 \in 1..Len(list) : \A j1, j2 \in 1..Len(of) :
        (i1 < i2 /\ of[j1] = list[i1] /\ of[j2] = list[i2]) => j1 <= j2

\* C27: a run fetches the active accounts of the user in the order in which
\* they were added; the merged candidates follow the accounts, the survivors
\* of dedupe the merged list, and the persisted emails the survivors
C27_RunKeepsOrder ==
    svc_call.op = "process_user_emails"
        => /\ svc_call.lists.accounts
                  \in {<<>>, FetchedAccounts(email_accounts[svc_call.user])}
           /\ KeepsOrder([i \in 1..Len(svc_call.lists.merged) |->
                             svc_call.lists.merged[i][1]],
                         svc_call.lists.accounts)
           /\ KeepsOrder(svc_call.lists.survivors, svc_call.lists.merged)
           /\ KeepsOrder(svc_call.lists.persisted, svc_call.lists.survivors)

\* C22: every candidate fetch_new_emails produces has forward_level = 0
\* exactly when is_forwarded is false, whatever the forward signals of the
\* message and whether or not an original sender can be extracted
C22_LevelZeroIffNotForwarded ==
    svc_call.op = "fetch_new_emails"
        => (svc_call.email_data.forward_level = 0
                <=> ~svc_call.email_data.is_forwarded)

\* the matches the rules of the table have counted
RECURSIVE MatchCounts(_)
MatchCounts(tbl) ==
    IF tbl = {} THEN 0
    ELSE LET r == CHOOSE x \in tbl : TRUE
         IN  r.match_count + MatchCounts(tbl \ {r})

\* C24: in a run the classifier is applied only to the survivors of dedupe:
\* the rules count at most one match per survivor, and a run whose candidates
\* are all dropped leaves every rule's match_count as it was
C24_ClassifiedAfterDedupe ==
    svc_call.op = "process_user_emails"
        => MatchCounts(rules) - MatchCounts(svc_call.before)
               <= Len(svc_call.lists.survivors)

\* C25: when the save of one email of a batch fails, the other emails of the
\* batch are persisted, and the saved count of the success notification is
\* the number of emails the run persisted
C25_SavedCountIsPersisted ==
    /\ pipe_last.kind = "saved" => pipe_last.saved_count = pipe_last.stored
    /\ pipe_last.kind \in {"saved", "unlisted"}
        => \A id \in pipe_last.saved_ids : \E r \in emails : r.email_id = id

\* C30: a firing that the manager admitted but whose process_user_emails call
\* returned at the pipeline's own concurrency check records no success: the
\* bookkeeping after the call leaves error_counts[u] as it was
C30_SkippedFiringRecordsNoSuccess ==
    [][\A u \in SkipUsers :
          (/\ skipped = "app" /\ sched[u] = "returned" /\ StepOf(u)
           /\ SchedFinish(u))
              => error_counts'[u] = error_counts[u]]_vars

\* C26: remove_user_schedule(u) called when u has a job removes the job
\* user_<u>_email_processing and u's entry of user_jobs; called when u has no
\* job it changes nothing
C26_RemoveRemovesJob ==
    svc_call.op = "remove_user_schedule"
        => IF get_job(svc_call.before, JobId(svc_call.user)) # {}
           THEN /\ get_job(scheduler_jobs, JobId(svc_call.user)) = {}
                /\ IntKey(svc_call.user) \notin DOMAIN user_jobs
           ELSE scheduler_jobs = svc_call.before

\* C29: user_jobs has an entry for user u exactly when the scheduler has a
\* job with id user_<u>_email_processing
C29_EntryIffJob ==
    \A u \in users :
        IntKey(u) \in DOMAIN user_jobs <=> get_job(scheduler_jobs, JobId(u)) # {}

====
